---- MODULE Spec2Model ----
(***************************************************************************)
(* Connect-Z (src/connectz.py): a generalisation of connect 4 to an        *)
(* arbitrary board size and win length.                                    *)
(*                                                                         *)
(* Python lists are modelled as functions over 0..n-1, so that every index *)
(* of the model is the index the code uses.  board[c][r] is column c, row  *)
(* r; row rows-1 is the bottom of a column.                                *)
(***************************************************************************)
EXTENDS Integers, Sequences, FiniteSets, TLC

\* ---------------------------------------------------------------- bounds
MaxDim == 3        \* rows and columns range over 1..MaxDim
MaxCells == 9      \* boards have at most MaxCells cells
MaxWin == 3        \* win_length ranges over 1..MaxWin
ColSlack == 1      \* make_move is called with columns -ColSlack..columns-1+ColSlack

VARIABLES
    rows, columns, win_length,   \* ConnectZGame.rows / .columns / .win_length
    board,                       \* ConnectZGame.board: column -> row -> {0, 1, -1}
    status,                      \* ConnectZGame.status
    turn,                        \* ConnectZGame.turn: 1 or -1
    column_counters,             \* ConnectZGame.column_counters
    drops,                       \* history: the columns of the successful make_move calls
    last,                        \* history: the latest make_move call and its outcome
    checked,                     \* the value returned by a direct call of WinChecker.check
    pc,                          \* main: the step the run is at ("lib": no run, the class is used directly)
    argv,                        \* sys.argv
    input_file_path,             \* main: input_file_path
    file_lines,                  \* parse_input: file_text.split("\n")
    game_dimensions,             \* parse_input: file_lines[0].split(" ")
    moves,                       \* parse_and_play: the move lines not yet played
    dims,                        \* parse_and_play: rows, columns, win_length as parsed
    raised,                      \* the exception raised in the run, if any
    out                          \* what the run has printed to standard output

gameVars == <<rows, columns, win_length, board, status, turn, column_counters>>

Wins == {"player 1 win", "player 2 win"}
Statuses == {"draw", "player 1 win", "player 2 win", "incomplete"}
MoveErrors == {"illegal column", "illegal row", "illegal continue"}

\* ------------------------------------------------------- Python list access
\* len(lst) of a list modelled as a function over 0..n-1
PyLen(lst) == Cardinality(DOMAIN lst)

\* lst[k] raises IndexError exactly when k is outside -len..len-1
PyInRange(lst, k) == k >= -PyLen(lst) /\ k < PyLen(lst)

\* lst[k]: a negative index counts from the end of the list
PyGet(lst, k) == IF k < 0 THEN lst[k + PyLen(lst)] ELSE lst[k]

\* ------------------------------------------------------------- build_masks
\* a plausible slip: the first mask steps along the same axis as the second
right_mask_copied(i, j, w) == [n \in 1..w |-> <<i + (n - 1), j>>]

right_mask(i, j, w) == [n \in 1..w |-> <<i, j + (n - 1)>>]
down_mask(i, j, w) == [n \in 1..w |-> <<i + (n - 1), j>>]
diagonal_mask(i, j, w) == [n \in 1..w |-> <<i + (n - 1), j + (n - 1)>>]
inverse_diagonal_mask(i, j, w) == [n \in 1..w |-> <<i - (n - 1) + w - 1, j + (n - 1)>>]

\* a plausible slip: the anti-diagonal built without the "+ win_length - 1" offset
build_masks_no_offset(i, j, w) ==
    << right_mask(i, j, w), down_mask(i, j, w), diagonal_mask(i, j, w),
       [n \in 1..w |-> <<i - (n - 1), j + (n - 1)>>] >>

build_masks(i, j, w) ==
    << right_mask(i, j, w), down_mask(i, j, w), diagonal_mask(i, j, w),
       inverse_diagonal_mask(i, j, w) >>

\* ------------------------------------------------------------- WinChecker
\* board[mx][my] raises IndexError for some cell of the mask
MaskRaises(b, mask) ==
    \E n \in 1..Len(mask) :
        \/ ~PyInRange(b, mask[n][1])
        \/ ~PyInRange(PyGet(b, mask[n][1]), mask[n][2])

\* the cell the code reads for the n-th entry of the mask
MaskCell(b, mask, n) == PyGet(PyGet(b, mask[n][1]), mask[n][2])

RECURSIVE SumUpTo(_, _, _)
SumUpTo(b, mask, n) ==
    IF n = 0 THEN 0 ELSE SumUpTo(b, mask, n - 1) + MaskCell(b, mask, n)

\* sum((board[mx][my] for mx, my in mask)), when no cell raises
MaskTotal(b, mask) == SumUpTo(b, mask, Len(mask))

\* a plausible slip: the two results are exchanged
TotalState_swapped(total, w) ==
    IF total = w THEN "player 2 win"
    ELSE IF total = -w THEN "player 1 win"
    ELSE "incomplete"

\* the two comparisons of the total of one mask
TotalState(total, w) ==
    IF total = w THEN "player 1 win"
    ELSE IF total = -w THEN "player 2 win"
    ELSE "incomplete"

\* "return state" when state is a win, and the rest of the loop otherwise
ReturnOrGoOn(state, rest) == IF state # "incomplete" THEN state ELSE rest

\* a plausible slip: the try statement encloses the loop, so that the first
\* IndexError ends the loop over the masks
RECURSIVE ScanMasks_try_outside(_, _, _, _)
ScanMasks_try_outside(masks, k, b, w) ==
    IF k > Len(masks) THEN "incomplete"
    ELSE IF MaskRaises(b, masks[k]) THEN "incomplete"
    ELSE ReturnOrGoOn(TotalState(MaskTotal(b, masks[k]), w),
                      ScanMasks_try_outside(masks, k + 1, b, w))

RECURSIVE ScanMasks(_, _, _, _)
ScanMasks(masks, k, b, w) ==
    IF k > Len(masks) THEN "incomplete"
    ELSE IF MaskRaises(b, masks[k]) THEN ScanMasks(masks, k + 1, b, w)
    ELSE ReturnOrGoOn(TotalState(MaskTotal(b, masks[k]), w),
                      ScanMasks(masks, k + 1, b, w))

square_contains_win(i, j, b, w) == ScanMasks(build_masks(i, j, w), 1, b, w)

\* a plausible slip: only the first column is searched for an empty cell
HasEmptyFirstColumn(b) == \E r \in DOMAIN b[0] : b[0][r] = 0

\* 0 in flat_board
HasEmpty(b) == \E c \in DOMAIN b : \E r \in DOMAIN b[c] : b[c][r] = 0

\* the loops of check: i over range(columns), j over range(rows), from (i, j) on
RECURSIVE ScanCells(_, _, _, _, _, _)
ScanCells(i, j, rws, cls, w, b) ==
    IF i >= cls THEN "incomplete"
    ELSE IF j >= rws THEN ScanCells(i + 1, 0, rws, cls, w, b)
    ELSE ReturnOrGoOn(square_contains_win(i, j, b, w),
                      ScanCells(i, j + 1, rws, cls, w, b))

check(rws, cls, w, b) ==
    ReturnOrGoOn(ScanCells(0, 0, rws, cls, w, b),
                 IF HasEmpty(b) THEN "incomplete" ELSE "draw")

\* ----------------------------------------------------------- ConnectZGame
EmptyBoard(rws, cls) == [y \in 0..(cls - 1) |-> [x \in 0..(rws - 1) |-> 0]]

\* a plausible slip: the counters start at rows, one past the bottom row
InitCounters_rows(rws, cls) == [x \in 0..(cls - 1) |-> rws]

InitCounters(rws, cls) == [x \in 0..(cls - 1) |-> rws - 1]

\* a plausible slip: a won game is not rejected
validate_move_no_continue(cls, cc, st, c) ==
    IF ~(c >= 0) THEN "illegal column"
    ELSE IF ~(c < cls) THEN "illegal column"
    ELSE IF ~(PyGet(cc, c) > -1) THEN "illegal row"
    ELSE "ok"

\* a plausible slip: a won game is rejected before the full column is
validate_move_continue_first(cls, cc, st, c) ==
    IF ~(c >= 0) THEN "illegal column"
    ELSE IF ~(c < cls) THEN "illegal column"
    ELSE IF ~(st # "player 1 win" /\ st # "player 2 win") THEN "illegal continue"
    ELSE IF ~(PyGet(cc, c) > -1) THEN "illegal row"
    ELSE "ok"

\* the assertions of validate_move in order: the first that fails is raised
validate_move(cls, cc, st, c) ==
    IF ~(c >= 0) THEN "illegal column"
    ELSE IF ~(c < cls) THEN "illegal column"
    ELSE IF ~(PyGet(cc, c) > -1) THEN "illegal row"
    ELSE IF ~(st # "player 1 win" /\ st # "player 2 win") THEN "illegal continue"
    ELSE "ok"

\* a plausible slip: the counter is written at the top of the column
place_top(b, c, row_level, t) == [b EXCEPT ![c] = [@ EXCEPT ![0] = t]]

\* self.board[selected_col][row_level] = self.turn
place(b, c, row_level, t) == [b EXCEPT ![c] = [@ EXCEPT ![row_level] = t]]

\* a plausible slip: the column counter is not moved on
advance_forgotten(cc, c) == cc

\* self.column_counters[selected_col] -= 1
advance(cc, c) == [cc EXCEPT ![c] = @ - 1]

\* a plausible slip: the turn is not passed on
switch_turn_forgotten(t) == t

\* self.turn *= -1
switch_turn(t) == t * (-1)

\* a plausible slip: the board is evaluated before the counter is placed
make_move_stale_status(c) ==
    LET err == validate_move(columns, column_counters, status, c) IN
    IF err # "ok"
    THEN /\ last' = [called |-> TRUE, col |-> c, outcome |-> err]
         /\ UNCHANGED <<gameVars, drops>>
    ELSE LET row_level == column_counters[c] IN
            /\ board' = place(board, c, row_level, turn)
            /\ status' = check(rows, columns, win_length, board)
            /\ column_counters' = advance(column_counters, c)
            /\ turn' = switch_turn(turn)
            /\ drops' = Append(drops, c)
            /\ last' = [called |-> TRUE, col |-> c, outcome |-> status']
            /\ UNCHANGED <<rows, columns, win_length>>

\* a plausible slip: the turn is passed on before the move is validated
make_move_turn_first(c) ==
    LET err == validate_move(columns, column_counters, status, c) IN
    IF err # "ok"
    THEN /\ last' = [called |-> TRUE, col |-> c, outcome |-> err]
         /\ turn' = switch_turn(turn)
         /\ UNCHANGED <<rows, columns, win_length, board, status,
                        column_counters, drops>>
    ELSE LET row_level == column_counters[c] IN
            /\ board' = place(board, c, row_level, switch_turn(turn))
            /\ status' = check(rows, columns, win_length, board')
            /\ column_counters' = advance(column_counters, c)
            /\ turn' = switch_turn(turn)
            /\ drops' = Append(drops, c)
            /\ last' = [called |-> TRUE, col |-> c, outcome |-> status']
            /\ UNCHANGED <<rows, columns, win_length>>

\* make_move(selected_col): validate, place, evaluate, advance, switch turn
make_move(c) ==
    LET err == validate_move(columns, column_counters, status, c) IN
    IF err # "ok"
    THEN /\ last' = [called |-> TRUE, col |-> c, outcome |-> err]
         /\ UNCHANGED <<gameVars, drops>>
    ELSE LET row_level == column_counters[c] IN
            /\ board' = place(board, c, row_level, turn)
            /\ status' = check(rows, columns, win_length, board')
            /\ column_counters' = advance(column_counters, c)
            /\ turn' = switch_turn(turn)
            /\ drops' = Append(drops, c)
            /\ last' = [called |-> TRUE, col |-> c, outcome |-> status']
            /\ UNCHANGED <<rows, columns, win_length>>

NoCall == [called |-> FALSE, col |-> 0, outcome |-> "none"]

\* ------------------------------------------------- specification: one game
mainVars == <<pc, argv, input_file_path, file_lines, game_dimensions, moves,
              dims, raised, out>>

vars == <<rows, columns, win_length, board, status, turn, column_counters,
          drops, last, checked, pc, argv, input_file_path, file_lines,
          game_dimensions, moves, dims, raised, out>>

NoException == [type |-> "none", msg |-> ""]

\* the variables of main when the classes are used without it
NoRun ==
    /\ pc = "lib"
    /\ argv = <<>>
    /\ input_file_path = ""
    /\ file_lines = <<>>
    /\ game_dimensions = <<>>
    /\ moves = <<>>
    /\ dims = <<>>
    /\ raised = NoException
    /\ out = <<>>

Dims == {d \in (1..MaxDim) \X (1..MaxDim) \X (1..MaxWin) : d[1] * d[2] <= MaxCells}

\* ConnectZGame(rows, columns, win_length)
Init ==
    \E d \in Dims :
        /\ rows = d[1]
        /\ columns = d[2]
        /\ win_length = d[3]
        /\ board = EmptyBoard(d[1], d[2])
        /\ status = "incomplete"
        /\ turn = 1
        /\ column_counters = InitCounters(d[1], d[2])
        /\ drops = <<>>
        /\ last = NoCall
        /\ checked = "none"
        /\ NoRun

ColArgs == (0 - ColSlack)..(columns - 1 + ColSlack)

MakeMove ==
    /\ pc = "lib"
    /\ \E c \in ColArgs : make_move(c)
    /\ UNCHANGED <<checked, mainVars>>

Next == MakeMove

Spec == Init /\ [][Next]_vars

\* the caller goes on calling make_move for ever
SpecAttempts == Init /\ [][Next]_vars /\ WF_vars(MakeMove)

\* ------------------------------- specification: WinChecker.check on a board
Boards(rws, cls) == [0..(cls - 1) -> [0..(rws - 1) -> {-1, 0, 1}]]

InitCheck ==
    \E d \in Dims :
        /\ rows = d[1]
        /\ columns = d[2]
        /\ win_length = d[3]
        /\ board \in Boards(d[1], d[2])
        /\ status = "incomplete"
        /\ turn = 1
        /\ column_counters = InitCounters(d[1], d[2])
        /\ drops = <<>>
        /\ last = NoCall
        /\ checked = "none"
        /\ NoRun

\* WinChecker(rows, columns, win_length).check(board)
Check ==
    /\ checked = "none"
    /\ checked' = check(rows, columns, win_length, board)
    /\ UNCHANGED <<gameVars, drops, last, mainVars>>

NextCheck == Check

SpecCheck == InitCheck /\ [][NextCheck]_vars

\* ------------------------------------------------------------------- int()
\* A token is a sequence of one-character strings.  A file is the sequence of
\* its lines (text.split("\n"): one line more than the text has newlines), and
\* the first line is the sequence of its tokens (line.split(" "): one token
\* more than the line has spaces).
Digits == {"0", "1", "2", "3", "4", "5", "6", "7", "8", "9"}

DigitValue(ch) ==
    CASE ch = "0" -> 0 [] ch = "1" -> 1 [] ch = "2" -> 2 [] ch = "3" -> 3
      [] ch = "4" -> 4 [] ch = "5" -> 5 [] ch = "6" -> 6 [] ch = "7" -> 7
      [] ch = "8" -> 8 [] ch = "9" -> 9

AllDigits(s) == Len(s) >= 1 /\ \A k \in 1..Len(s) : s[k] \in Digits

\* int(tok) returns a value; otherwise it raises ValueError
IsInt(tok) ==
    IF Len(tok) >= 1 /\ tok[1] \in {"-", "+"}
    THEN AllDigits(Tail(tok))
    ELSE AllDigits(tok)

RECURSIVE DecValue(_)
DecValue(s) ==
    IF s = <<>> THEN 0
    ELSE 10 * DecValue(SubSeq(s, 1, Len(s) - 1)) + DigitValue(s[Len(s)])

\* int(tok), for a token that IsInt
int(tok) ==
    IF tok[1] = "-" THEN 0 - DecValue(Tail(tok))
    ELSE IF tok[1] = "+" THEN DecValue(Tail(tok))
    ELSE DecValue(tok)

\* -------------------------------------------------------------- exceptions
Exception(t, m) == [type |-> t, msg |-> m]

\* isinstance(e, AssertionError): InvalidSysArgsError is a subclass
IsAssertionError(e) == e.type \in {"AssertionError", "InvalidSysArgsError"}

ValueErrorMsg == "invalid literal for int() with base 10"

\* re.search(pat, msg) for a literal pattern, over the messages of this program:
\* none of them is a proper part of another, and the empty pattern is found in all
Search(pat, msg) == pat = "" \/ msg = pat

GAME_CODES ==
    [m \in {"draw", "player 1 win", "player 2 win", "incomplete",
            "illegal continue", "illegal row", "illegal column",
            "illegal game", "invalid file", "file error"} |->
        CASE m = "draw" -> 0
          [] m = "player 1 win" -> 1
          [] m = "player 2 win" -> 2
          [] m = "incomplete" -> 3
          [] m = "illegal continue" -> 4
          [] m = "illegal row" -> 5
          [] m = "illegal column" -> 6
          [] m = "illegal game" -> 7
          [] m = "invalid file" -> 8
          [] m = "file error" -> 9]

\* one print() to standard output: an integer code or a text
PrintCode(n) == [kind |-> "code", code |-> n, text |-> ""]
PrintText(t) == [kind |-> "text", code |-> 0 - 1, text |-> t]

\* the except clauses of main, in order; any other exception is not caught
\* and leaves standard output as it is
Handler(e) ==
    IF e.type = "InvalidSysArgsError" THEN <<PrintText("Provide one input file")>>
    ELSE IF IsAssertionError(e) THEN <<PrintCode(GAME_CODES[e.msg])>>
    ELSE <<>>

\* the run ends with exception e
Abort(e) ==
    /\ raised' = e
    /\ out' = out \o Handler(e)
    /\ pc' = "done"

\* ------------------------------------------------------ parse_game_dimensions
Min2(a, b) == IF a <= b THEN a ELSE b
Min3(a, b, c) == Min2(a, Min2(b, c))

\* the exception parse_game_dimensions raises, or NoException when it returns
parse_game_dimensions_exc(gd) ==
    IF ~(Len(gd) = 3) THEN Exception("AssertionError", "invalid file")
    ELSE IF ~IsInt(gd[1]) \/ ~IsInt(gd[2]) \/ ~IsInt(gd[3])
         THEN Exception("ValueError", ValueErrorMsg)
    ELSE IF ~(Min3(int(gd[1]), int(gd[2]), int(gd[3])) > 0)
         THEN Exception("AssertionError", "illegal game")
    ELSE IF ~(int(gd[3]) <= Min2(int(gd[1]), int(gd[2])))
         THEN Exception("AssertionError", "illegal game")
    ELSE NoException

\* rows, columns, win_length as returned
parse_game_dimensions(gd) == <<int(gd[1]), int(gd[2]), int(gd[3])>>

\* ------------------------------------------------------------- input files
MaxArgs == 2         \* the run gets 0..MaxArgs command-line arguments
MaxDimTokens == 4    \* the first line has 1..MaxDimTokens tokens
MaxMoves == 3        \* a file has 0..MaxMoves move lines

Paths == {"test_path", "banana"}
ReadablePaths == {"test_path"}

DimTok == {<<"0">>, <<"1">>, <<"2">>, <<"x">>}
MoveTok == {<<"1">>, <<"2">>, <<"3">>, <<>>}

SeqsUpTo(S, lo, hi) == UNION {[1..n -> S] : n \in lo..hi}

\* test/games/complete_game.txt
FixtureFile ==
    << <<<<"7">>, <<"6">>, <<"4">>>>,
       <<"1">>, <<"2">>, <<"1">>, <<"2">>, <<"1">>, <<"2">>, <<"1">> >>

\* f is the content of a file
IsFile(f) ==
    \/ f = FixtureFile
    \/ \E d \in SeqsUpTo(DimTok, 1, MaxDimTokens) :
       \E m \in SeqsUpTo(MoveTok, 0, MaxMoves) : f = <<d>> \o m

Argvs == {<<"script.py">> \o a : a \in SeqsUpTo(Paths, 0, MaxArgs)}

\* -------------------------------------------------- specification: one run
InitMain ==
    /\ pc = "start"
    /\ argv \in Argvs
    /\ input_file_path = ""
    /\ file_lines = <<>>
    /\ game_dimensions = <<>>
    /\ moves = <<>>
    /\ dims = <<>>
    /\ raised = NoException
    /\ out = <<>>
    /\ rows = 0
    /\ columns = 0
    /\ win_length = 0
    /\ board = <<>>
    /\ status = "none"
    /\ turn = 0
    /\ column_counters = <<>>
    /\ drops = <<>>
    /\ last = NoCall
    /\ checked = "none"

\* main: input_file_path = get_sys_filepath()
GetSysFilepath ==
    /\ pc = "start"
    /\ LET num_inputs == Len(argv) - 1 IN
       IF num_inputs # 1
       THEN /\ Abort(Exception("InvalidSysArgsError", ""))
            /\ UNCHANGED input_file_path
       ELSE /\ input_file_path' = argv[2]
            /\ pc' = "parse_input"
            /\ UNCHANGED <<raised, out>>
    /\ UNCHANGED <<gameVars, drops, last, checked, argv, file_lines,
                   game_dimensions, moves, dims>>

\* parse_and_play: game_dimensions_raw, moves = parse_input(file_path)
ParseInput ==
    /\ pc = "parse_input"
    /\ IF input_file_path \notin ReadablePaths
       THEN /\ Abort(Exception("AssertionError", "file error"))
            /\ UNCHANGED <<file_lines, game_dimensions, moves>>
       ELSE /\ IsFile(file_lines')
            /\ game_dimensions' = file_lines'[1]
            /\ moves' = Tail(file_lines')
            /\ pc' = "parse_dims"
            /\ UNCHANGED <<raised, out>>
    /\ UNCHANGED <<gameVars, drops, last, checked, argv, input_file_path, dims>>

\* parse_and_play: rows, columns, win_length = parse_game_dimensions(...)
ParseGameDimensions ==
    /\ pc = "parse_dims"
    /\ IF parse_game_dimensions_exc(game_dimensions) # NoException
       THEN /\ Abort(parse_game_dimensions_exc(game_dimensions))
            /\ UNCHANGED dims
       ELSE /\ dims' = parse_game_dimensions(game_dimensions)
            /\ pc' = "construct"
            /\ UNCHANGED <<raised, out>>
    /\ UNCHANGED <<gameVars, drops, last, checked, argv, input_file_path,
                   file_lines, game_dimensions, moves>>

\* parse_and_play: game = ConnectZGame(rows, columns, win_length)
Construct ==
    /\ pc = "construct"
    /\ rows' = dims[1]
    /\ columns' = dims[2]
    /\ win_length' = dims[3]
    /\ board' = EmptyBoard(dims[1], dims[2])
    /\ status' = "incomplete"
    /\ turn' = 1
    /\ column_counters' = InitCounters(dims[1], dims[2])
    /\ pc' = "play"
    /\ UNCHANGED <<drops, last, checked, argv, input_file_path, file_lines,
                   game_dimensions, moves, dims, raised, out>>

\* a plausible slip: the token is used as a 0-based column
selected_col_one_based(move) == int(move)

\* int(move) - 1
selected_col(move) == int(move) - 1

\* parse_and_play: one iteration of "for move in moves"
PlayMove ==
    /\ pc = "play"
    /\ moves # <<>>
    /\ IF ~IsInt(Head(moves))
       THEN /\ Abort(Exception("ValueError", ValueErrorMsg))
            /\ UNCHANGED <<gameVars, drops, last, moves>>
       ELSE /\ make_move(selected_col(Head(moves)))
            /\ IF last'.outcome \in MoveErrors
               THEN /\ Abort(Exception("AssertionError", last'.outcome))
                    /\ UNCHANGED moves
               ELSE /\ moves' = Tail(moves)
                    /\ UNCHANGED <<pc, raised, out>>
    /\ UNCHANGED <<checked, argv, input_file_path, file_lines,
                   game_dimensions, dims>>

\* parse_and_play returns game.status; main prints its code
PrintStatus ==
    /\ pc = "play"
    /\ moves = <<>>
    /\ out' = Append(out, PrintCode(GAME_CODES[status]))
    /\ pc' = "done"
    /\ UNCHANGED <<gameVars, drops, last, checked, argv, input_file_path,
                   file_lines, game_dimensions, moves, dims, raised>>

NextMain ==
    \/ GetSysFilepath
    \/ ParseInput
    \/ ParseGameDimensions
    \/ Construct
    \/ PlayMove
    \/ PrintStatus

SpecMain == InitMain /\ [][NextMain]_vars

\* ------------------- specification: the class used directly or through main
InitPlay == Init \/ InitMain

NextPlay == Next \/ NextMain

SpecPlay == InitPlay /\ [][NextPlay]_vars

\* ===================================================================== claims
\* every cell of column c is occupied
ColumnFull(b, c) == \A r \in DOMAIN b[c] : b[c][r] # 0

\* the step is a successful make_move
Dropped == Len(drops') = Len(drops) + 1

\* the lowest empty cell of column c: the free cell with the highest row index
LowestEmpty(b, c) ==
    CHOOSE r \in DOMAIN b[c] :
        b[c][r] = 0 /\ \A q \in DOMAIN b[c] : b[c][q] = 0 => q <= r

\* C1: every make_move(c) fails with 'illegal column' if c < 0 or c >= columns,
\* otherwise with 'illegal row' if column c is full (whatever the status is),
\* otherwise with 'illegal continue' if the status is a win, and otherwise
\* it succeeds; only the first applicable error is reported.
C1_ErrorOrder ==
    [][ last'.called =>
          LET c == last'.col IN
          IF c < 0 \/ c >= columns THEN last'.outcome = "illegal column" /\ ~Dropped
          ELSE IF ColumnFull(board, c) THEN last'.outcome = "illegal row" /\ ~Dropped
          ELSE IF status \in Wins THEN last'.outcome = "illegal continue" /\ ~Dropped
          ELSE last'.outcome \in Statuses /\ Dropped ]_vars

\* a full column is refused as 'illegal row' in a game that is already won
C1_Witness ==
    /\ status \in Wins
    /\ last.called
    /\ last.outcome = "illegal row"
    /\ last.col \in DOMAIN board
    /\ ColumnFull(board, last.col)

\* C2: a successful make_move(c) changes exactly one cell, the lowest empty
\* cell of column c, from empty to the mark of the player whose turn it was;
\* every other cell and every other column counter is unchanged, the counter
\* of column c moves by exactly one, and the turn passes to the other player.
C2_OneCell ==
    [][ Dropped =>
          LET c == last'.col
              r == LowestEmpty(board, c)
          IN /\ turn \in {1, 0 - 1}
             /\ board[c][r] = 0
             /\ board'[c][r] = turn
             /\ \A x \in DOMAIN board : \A y \in DOMAIN board[x] :
                    <<x, y>> # <<c, r>> => board'[x][y] = board[x][y]
             /\ DOMAIN board' = DOMAIN board
             /\ \A x \in DOMAIN column_counters :
                    x # c => column_counters'[x] = column_counters[x]
             /\ column_counters'[c] = column_counters[c] - 1
             /\ turn' = 0 - turn ]_vars

\* player 2 has dropped on top of a counter of player 1
C2_Witness ==
    \E c \in DOMAIN board :
        /\ rows >= 2
        /\ board[c][rows - 1] = 1
        /\ board[c][rows - 2] = 0 - 1
        /\ last.called /\ last.col = c /\ last.outcome \in Statuses

\* the four directions of a line: along a column, along a row, and both diagonals
Directions == {<<0, 1>>, <<1, 0>>, <<1, 1>>, <<1, 0 - 1>>}

\* the board holds win_length consecutive cells of player p inside the board
HasLine(b, p) ==
    \E c \in 0..(columns - 1) : \E r \in 0..(rows - 1) : \E d \in Directions :
        \A n \in 0..(win_length - 1) :
            /\ c + n * d[1] \in 0..(columns - 1)
            /\ r + n * d[2] \in 0..(rows - 1)
            /\ b[c + n * d[1]][r + n * d[2]] = p

\* C3: on a board where at most one player has a winning line, check returns
\* 'player 1 win' (resp. 'player 2 win') iff the board holds win_length
\* consecutive cells of player 1 (resp. 2) inside the board along a column, a
\* row, a diagonal or an anti-diagonal.
C3_WinIffLine ==
    (checked # "none" /\ ~(HasLine(board, 1) /\ HasLine(board, 0 - 1))) =>
        /\ checked = "player 1 win" <=> HasLine(board, 1)
        /\ checked = "player 2 win" <=> HasLine(board, 0 - 1)

\* an anti-diagonal of player 2 from the bottom-left corner is found
C3_Witness ==
    /\ checked = "player 2 win"
    /\ win_length >= 2 /\ rows = win_length /\ columns >= win_length
    /\ \A n \in 0..(win_length - 1) : board[n][rows - 1 - n] = 0 - 1
    /\ \A c \in DOMAIN board : \A r \in DOMAIN board[c] :
           c + r # rows - 1 => board[c][r] = 0

\* C4: a board without a winning line evaluates to 'draw' when every cell is
\* occupied and to 'incomplete' otherwise (the all-empty board included); a
\* board with a winning line never evaluates to 'draw' or 'incomplete'.
C4_DrawOrIncomplete ==
    checked # "none" =>
        IF HasLine(board, 1) \/ HasLine(board, 0 - 1)
        THEN checked \notin {"draw", "incomplete"}
        ELSE IF \A c \in DOMAIN board : ColumnFull(board, c)
             THEN checked = "draw"
             ELSE checked = "incomplete"

\* a full board of at least two columns without a line
C4_Witness ==
    /\ checked = "draw"
    /\ rows >= 2 /\ columns >= 2
    /\ \A c \in DOMAIN board : ColumnFull(board, c)

\* C10: a cell that has become occupied keeps its mark in every later step.
C10_CellsKept ==
    [][ \A c \in DOMAIN board : \A r \in DOMAIN board[c] :
          board[c][r] # 0 =>
              /\ c \in DOMAIN board' /\ r \in DOMAIN board'[c]
              /\ board'[c][r] = board[c][r] ]_vars

\* a column holds counters of both players after successful and failed calls
C10_Witness ==
    \E c \in DOMAIN board :
        /\ rows >= 2
        /\ board[c][rows - 1] # 0
        /\ board[c][rows - 2] # 0
        /\ last.called /\ last.outcome \in MoveErrors

\* the step calls make_move: directly, or from parse_and_play with an integer line
Calling ==
    \/ pc = "lib"
    \/ pc = "play" /\ moves # <<>> /\ IsInt(Head(moves))

\* the successful drops so far alternate: player 1 in column a, player 2 in column b
Alternating(a, b) ==
    \A k \in 1..Len(drops) : drops[k] = IF k % 2 = 1 THEN a ELSE b

\* C8: with win_length w >= 2, rows >= w and two different columns a and b,
\* when player 1 always drops in a and player 2 always in b, every drop
\* succeeds, the status is 'incomplete' after each of the first 2w-2 drops and
\* 'player 1 win' after drop 2w-1; the run on 7 6 4 with moves 1,2,1,2,1,2,1
\* ends as 'player 1 win' and prints 1.
C8_AlternatingColumns ==
    /\ [](\A a \in DOMAIN board : \A b \in DOMAIN board :
            (a # b /\ win_length >= 2 /\ rows >= win_length /\ Alternating(a, b)) =>
                /\ Len(drops) <= 2 * win_length - 2 => status = "incomplete"
                /\ Len(drops) = 2 * win_length - 1 => status = "player 1 win")
    /\ [][ \A a \in DOMAIN board : \A b \in DOMAIN board :
            ( /\ a # b /\ win_length >= 2 /\ rows >= win_length
              /\ Alternating(a, b)
              /\ Len(drops) <= 2 * win_length - 2
              /\ Calling
              /\ last'.col = (IF Len(drops) % 2 = 0 THEN a ELSE b) ) =>
                /\ Dropped
                /\ last'.outcome =
                      (IF Len(drops) = 2 * win_length - 2
                       THEN "player 1 win" ELSE "incomplete") ]_vars
    /\ []((pc = "done" /\ file_lines = FixtureFile) =>
            /\ drops = <<0, 1, 0, 1, 0, 1, 0>>
            /\ status = "player 1 win"
            /\ out = <<PrintCode(1)>>)

\* the run on the fixture file has ended with player 1's column of four
C8_Witness ==
    /\ pc = "done"
    /\ file_lines = FixtureFile
    /\ Len(drops) = 2 * win_length - 1
    /\ Alternating(0, 1)
    /\ \A r \in (rows - win_length)..(rows - 1) : board[0][r] = 1

\* every move line of the file is a decimal integer
IntegerMoves == \A k \in 2..Len(file_lines) : IsInt(file_lines[k])

\* C6: with valid dimensions and integer moves, parse_and_play applies the
\* moves in file order (token - 1 is the column), one at a time. If all
\* succeed the run prints the code (0..3) of the status after the last move,
\* 3 for an empty move list; otherwise it prints the code of the error of the
\* first failing move, applies no later move and prints nothing else.
C6_MovesInOrder ==
    (pc \in {"play", "done"} /\ dims # <<>> /\ IntegerMoves) =>
        LET n == Len(drops)
            total == Len(file_lines) - 1
        IN /\ n <= total
           /\ \A k \in 1..n : drops[k] = int(file_lines[k + 1]) - 1
           /\ pc = "play" =>
                 /\ moves = SubSeq(file_lines, n + 2, total + 1)
                 /\ out = <<>>
                 /\ raised = NoException
           /\ pc = "done" =>
                 \/ /\ n = total
                    /\ raised = NoException
                    /\ status \in Statuses
                    /\ GAME_CODES[status] \in 0..3
                    /\ total = 0 => status = "incomplete"
                    /\ out = <<PrintCode(GAME_CODES[status])>>
                 \/ /\ n < total
                    /\ raised.type = "AssertionError"
                    /\ raised.msg \in MoveErrors
                    /\ raised.msg = validate_move(columns, column_counters, status,
                                                  int(file_lines[n + 2]) - 1)
                    /\ out = <<PrintCode(GAME_CODES[raised.msg])>>

\* the second move fails with 'illegal continue' and the third, never
\* applied, would have failed with 'illegal column'
C6_Witness ==
    /\ pc = "done"
    /\ dims # <<>>
    /\ IntegerMoves
    /\ Len(file_lines) = 4
    /\ Len(drops) = 1
    /\ raised.msg = "illegal continue"
    /\ int(file_lines[4]) - 1 >= columns
    /\ out = <<PrintCode(4)>>

Max2(a, b) == IF a >= b THEN a ELSE b

\* C5: parse_game_dimensions succeeds iff rows, columns and win_length are all
\* > 0 and win_length <= max(rows, columns); otherwise it fails with 'illegal
\* game' (code 7) before a game object exists or a move is applied.
C5_MaxBound ==
    ( /\ pc \in {"construct", "play", "done"}
      /\ Len(game_dimensions) = 3
      /\ \A k \in 1..3 : IsInt(game_dimensions[k]) ) =>
        LET r == int(game_dimensions[1])
            c == int(game_dimensions[2])
            w == int(game_dimensions[3])
        IN IF r > 0 /\ c > 0 /\ w > 0 /\ w <= Max2(r, c)
           THEN dims = <<r, c, w>> /\ raised.msg # "illegal game"
           ELSE /\ dims = <<>>
                /\ raised = Exception("AssertionError", "illegal game")
                /\ out = <<PrintCode(7)>>
                /\ board = <<>>
                /\ drops = <<>>

\* the content of the file is malformed
Malformed(f) ==
    \/ Len(f[1]) # 3
    \/ \E k \in 1..Len(f[1]) : ~IsInt(f[1][k])
    \/ \E k \in 2..Len(f) : ~IsInt(f[k])

\* C7: a run on a readable file prints exactly one integer code of 0..9 and
\* nothing else, and the code is 8 when the content is malformed.
C7_OneCode ==
    (pc = "done" /\ file_lines # <<>>) =>
        /\ Len(out) = 1
        /\ out[1].kind = "code"
        /\ out[1].code \in 0..9
        /\ Malformed(file_lines) => out[1].code = 8

\* C9: get_sys_filepath returns the argument when exactly one is given, and
\* otherwise raises an AssertionError whose message contains 'invalid sys args'.
C9_InvalidSysArgs ==
    pc \notin {"lib", "start"} =>
        IF Len(argv) - 1 = 1
        THEN input_file_path = argv[2]
        ELSE /\ IsAssertionError(raised)
             /\ Search("invalid sys args", raised.msg)

\* the number of cells of the board that hold mark p
Marks(b, p) ==
    Cardinality({cell \in (0..(columns - 1)) \X (0..(rows - 1)) :
                    b[cell[1]][cell[2]] = p})

\* the number of counters in column c
Height(b, c) == Cardinality({r \in DOMAIN b[c] : b[c][r] # 0})

\* C11: in every column the occupied cells are exactly the cells below the
\* column counter (row index > column_counters[c]): one run from the bottom
\* with no empty cell under an occupied one; column_counters[c] is
\* rows - 1 - (counters in column c) and lies in -1..rows-1.
C11_ColumnsStacked ==
    \A c \in 0..(columns - 1) :
        /\ DOMAIN board = 0..(columns - 1)
        /\ DOMAIN board[c] = 0..(rows - 1)
        /\ \A r \in 0..(rows - 1) : board[c][r] # 0 <=> r > column_counters[c]
        /\ \A r \in 0..(rows - 2) : board[c][r] # 0 => board[c][r + 1] # 0
        /\ column_counters[c] = rows - 1 - Height(board, c)
        /\ column_counters[c] \in (0 - 1)..(rows - 1)

\* one column is full, another holds some counters and a third none
C11_Witness ==
    \E a \in DOMAIN board : \E b \in DOMAIN board : \E c \in DOMAIN board :
        /\ rows >= 3
        /\ column_counters[a] = 0 - 1
        /\ column_counters[b] \in 0..(rows - 2)
        /\ column_counters[c] = rows - 1

\* C12: the stored status is WinChecker.check of the current board in every
\* state: 'incomplete' on the empty board, and after a successful make_move
\* the value returned, the value stored and the evaluation of the board with
\* the new counter are the same.
C12_StatusIsCheck ==
    /\ [](status = check(rows, columns, win_length, board))
    /\ [](drops = <<>> => status = "incomplete")
    /\ [][ Dropped =>
             /\ last'.outcome = status'
             /\ status' = check(rows, columns, win_length, board') ]_vars

\* a drop has just completed a line and the stored status says so
C12_Witness ==
    /\ win_length >= 2
    /\ status = "player 2 win"
    /\ last.called /\ last.outcome = "player 2 win"
    /\ check(rows, columns, win_length, board) = "player 2 win"

\* the results found over all start cells and masks that stay on the board
WinVerdicts(b) ==
    {TotalState(MaskTotal(b, build_masks(i, j, win_length)[k]), win_length) :
        <<i, j, k>> \in
            {t \in (0..(columns - 1)) \X (0..(rows - 1)) \X (1..4) :
                ~MaskRaises(b, build_masks(t[1], t[2], win_length)[t[3]])}}
    \ {"incomplete"}

\* C13: on every board reached through make_move at most one player has a
\* winning line, so every scan order of check finds the same result.
C13_OneWinner ==
    /\ ~(HasLine(board, 1) /\ HasLine(board, 0 - 1))
    /\ Cardinality(WinVerdicts(board)) <= 1
    /\ WinVerdicts(board) # {} => WinVerdicts(board) = {status}

\* player 2 has a line while player 1 is one counter short of one
C13_Witness ==
    /\ win_length = 3
    /\ HasLine(board, 0 - 1)
    /\ status = "player 2 win"
    /\ \E c \in DOMAIN board : \E r \in 0..(rows - 2) :
           board[c][r] = 1 /\ board[c][r + 1] = 1

\* C14: player 1 moves first and the players alternate on successful drops:
\* the n-th successful make_move places player 1's mark when n is odd and
\* player 2's when n is even, a failing call does not change the turn, and
\* the marks of player 1 outnumber those of player 2 by 0 when it is player
\* 1's turn and by 1 when it is player 2's.
C14_Alternation ==
    /\ [](/\ turn \in {1, 0 - 1}
          /\ turn = (IF Len(drops) % 2 = 0 THEN 1 ELSE 0 - 1)
          /\ Marks(board, 1) - Marks(board, 0 - 1) = (IF turn = 1 THEN 0 ELSE 1))
    /\ [][ IF Dropped
           THEN board'[last'.col][LowestEmpty(board, last'.col)] =
                    (IF Len(drops') % 2 = 1 THEN 1 ELSE 0 - 1)
           ELSE turn' = turn ]_vars

\* after three drops and a failed call it is still player 2's turn
C14_Witness ==
    /\ Len(drops) = 3
    /\ turn = 0 - 1
    /\ last.called /\ last.outcome \in MoveErrors
    /\ Marks(board, 1) = 2 /\ Marks(board, 0 - 1) = 1

\* the columns make_move rejects in the current state, with every column tried
AllRejected ==
    \A c \in ColArgs :
        validate_move(columns, column_counters, status, c) \in MoveErrors

\* C15: a recorded win is permanent: once the status is a win, every later
\* make_move fails with the error its check order gives, and the status and
\* the board never change again.
C15_WinPermanent ==
    [][ (status \in Wins) =>
          LET c == last'.col
              error == IF c < 0 \/ c >= columns THEN "illegal column"
                       ELSE IF ColumnFull(board, c) THEN "illegal row"
                       ELSE "illegal continue"
          IN /\ status' = status
             /\ board' = board
             /\ ~Dropped
             /\ AllRejected
             /\ last'.outcome = error ]_vars

\* a drop into a column with room is refused after player 1 has won
C15_Witness ==
    /\ status = "player 1 win"
    /\ last.called
    /\ last.outcome = "illegal continue"
    /\ ~ColumnFull(board, last.col)
    /\ Len(drops) >= 3

\* every cell of the mask lies inside the board
MaskInBoard(mask) ==
    \A n \in 1..Len(mask) :
        mask[n][1] \in 0..(columns - 1) /\ mask[n][2] \in 0..(rows - 1)

\* the result of one mask that is summed
MaskVerdict(b, mask) == TotalState(MaskTotal(b, mask), win_length)

\* C16: for every start cell and each of the four directions the mask is
\* summed iff all its win_length cells lie inside the board; a mask leaving
\* the board is skipped without an error, no cell is read through a negative
\* index, and the directions after a skipped one are still evaluated.
C16_MasksInBoard ==
    \A i \in 0..(columns - 1) : \A j \in 0..(rows - 1) :
        LET masks == build_masks(i, j, win_length) IN
        /\ Len(masks) = 4
        /\ \A k \in 1..4 :
              /\ Len(masks[k]) = win_length
              /\ ~MaskRaises(board, masks[k]) <=> MaskInBoard(masks[k])
              /\ \A n \in 1..win_length :
                    masks[k][n][1] >= 0 /\ masks[k][n][2] >= 0
        /\ square_contains_win(i, j, board, win_length) \in
              (IF \E k \in 1..4 : /\ MaskInBoard(masks[k])
                                  /\ MaskVerdict(board, masks[k]) # "incomplete"
               THEN {"player 1 win", "player 2 win"}
               ELSE {"incomplete"})

\* the only line lies along the bottom row: from its first cell the first
\* mask leaves the board and the second finds the line
C16_Witness ==
    /\ checked = "player 1 win"
    /\ win_length >= 2 /\ rows >= 2 /\ columns = win_length
    /\ \A c \in DOMAIN board : \A r \in DOMAIN board[c] :
           board[c][r] = (IF r = rows - 1 THEN 1 ELSE 0)
    /\ MaskRaises(board, right_mask(0, rows - 1, win_length))
    /\ ~MaskRaises(board, down_mask(0, rows - 1, win_length))
    /\ square_contains_win(0, rows - 1, board, win_length) = "player 1 win"

\* C17: a make_move call that fails with 'illegal column', 'illegal row' or
\* 'illegal continue' leaves the whole game unchanged: the board, the column
\* counters, the turn, the status and the dimensions are what they were
\* before the call, and no drop is recorded.
C17_FailureKeepsGame ==
    [][ (last'.called /\ last'.outcome \in MoveErrors) =>
            /\ board' = board
            /\ column_counters' = column_counters
            /\ turn' = turn
            /\ status' = status
            /\ <<rows', columns', win_length'>> = <<rows, columns, win_length>>
            /\ drops' = drops
            /\ last'.outcome =
                   validate_move(columns, column_counters, status, last'.col) ]_vars

\* a call has just failed in a game that already holds counters and that
\* accepts a further drop in another column
C17_Witness ==
    /\ pc = "lib"
    /\ last.called /\ last.outcome = "illegal row"
    /\ Len(drops) >= 2
    /\ turn = 1
    /\ \E c \in 0..(columns - 1) :
           validate_move(columns, column_counters, status, c) = "ok"

\* C18: draw is absorbing: whenever the status is 'draw' every column is full
\* and every make_move is rejected with 'illegal column' or 'illegal row';
\* no step taken from a draw places a counter or changes the status.
C18_DrawAbsorbing ==
    /\ [](status = "draw" =>
             /\ \A c \in 0..(columns - 1) :
                    ColumnFull(board, c) /\ column_counters[c] = 0 - 1
             /\ \A c \in ColArgs :
                    validate_move(columns, column_counters, status, c) \in
                        {"illegal column", "illegal row"})
    /\ [][ (status = "draw") =>
              /\ ~Dropped
              /\ board' = board
              /\ status' = "draw"
              /\ last'.outcome \in {"illegal column", "illegal row"} ]_vars

\* a drop inside the board has been rejected after the game was drawn
C18_Witness ==
    /\ pc = "lib"
    /\ status = "draw"
    /\ rows >= 2 /\ columns >= 2
    /\ last.called /\ last.outcome = "illegal row"

\* the full lines of player p through nothing but cells of the board, as
\* sets of cells <<column, row>>
Lines(b, p) ==
    {line \in {{<<c + n * d[1], r + n * d[2]>> : n \in 0..(win_length - 1)} :
                  c \in 0..(columns - 1), r \in 0..(rows - 1), d \in Directions} :
        \A cell \in line :
            /\ cell[1] \in 0..(columns - 1)
            /\ cell[2] \in 0..(rows - 1)
            /\ b[cell[1]][cell[2]] = p}

\* C19: a successful make_move that returns a win returns it for the player
\* who made the drop: the status before the drop was 'incomplete', the other
\* player has no line, and every winning line on the board contains the cell
\* just placed.
C19_WinIsDroppers ==
    [][ (Dropped /\ status' \in Wins) =>
            LET c == last'.col
                r == LowestEmpty(board, last'.col) IN
            /\ last'.outcome = (IF turn = 1 THEN "player 1 win" ELSE "player 2 win")
            /\ status' = last'.outcome
            /\ status = "incomplete"
            /\ board'[c][r] = turn
            /\ Lines(board', 0 - turn) = {}
            /\ Lines(board', turn) # {}
            /\ \A line \in Lines(board', turn) : <<c, r>> \in line ]_vars

\* player 2 has just won with a drop that completed a line
C19_Witness ==
    /\ pc = "lib"
    /\ last.called /\ last.outcome = "player 2 win"
    /\ status = "player 2 win"
    /\ win_length >= 2
    /\ Len(drops) >= 4
    /\ Lines(board, 0 - 1) # {}

\* the game is over: a player has won or the board is full
Terminal ==
    \/ status \in Wins
    \/ \A c \in 0..(columns - 1) : ColumnFull(board, c)

\* the number of occupied cells of the board
Occupied(b) == Marks(b, 1) + Marks(b, 0 - 1)

\* C20 as stated: the number of successful drops equals the number of
\* occupied cells and is at most rows*columns, and every unbounded sequence
\* of make_move attempts eventually reaches a win or a full board, where
\* every further attempt fails.
C20_PlayEnds ==
    /\ [](Len(drops) = Occupied(board) /\ Len(drops) <= rows * columns)
    /\ <>(Terminal /\ AllRejected)

\* C20: in every reachable state the number of successful drops equals the
\* number of occupied cells and is at most rows*columns; a successful
\* make_move raises it by exactly one and a failing one leaves it alone, so
\* at most rows*columns attempts of any sequence succeed. Every attempt
\* fails exactly in the states with a win or a full board; attempts that
\* keep failing never bring the game to such a state.
C20_DropsBounded ==
    /\ [](Len(drops) = Occupied(board) /\ Len(drops) <= rows * columns)
    /\ [](Terminal <=> AllRejected)
    /\ [][ /\ Dropped => Occupied(board') = Occupied(board) + 1
           /\ (last'.outcome \in MoveErrors) =>
                  /\ Occupied(board') = Occupied(board)
                  /\ Terminal' <=> Terminal ]_vars

\* the board has been filled without a win, one drop per cell, and a further
\* attempt has failed
C20_Witness ==
    /\ pc = "lib"
    /\ rows * columns >= 4
    /\ Len(drops) = rows * columns
    /\ status = "draw"
    /\ Terminal /\ AllRejected
    /\ last.called /\ last.outcome \in MoveErrors

====
